---- MODULE Spec2Model ----
(***************************************************************************)
(* A model of player_ui.py: the metadata listener thread (stream reader,   *)
(* frame assembler, item decoder, field router, payload processor), the    *)
(* shared current_song dictionary behind buffer_lock, and the periodic     *)
(* refresh_ui consumer.                                                    *)
(*                                                                         *)
(* Text is modelled at the granularity the code's three regular            *)
(* expressions and its endswith test can tell apart: a line is a sequence  *)
(* of tokens, each one of <code>..</code>, <length>..</length>,            *)
(* <data encoding="base64">..</data>, </item> or whitespace.  Text the     *)
(* code ignores (<item>, <type>..</type>) is left out of the lines.        *)
(***************************************************************************)
EXTENDS Integers, Sequences, FiniteSets, TLC

\* ---------------------------------------------------------------- bounds
\* Wall-clock values run over 1..MaxClock (clock ticks).
MaxClock == 3
\* Clock ticks per millisecond: time.time() is finer than the millisecond
\* used in the cover-art file name.
TicksPerMs == 2
\* The accumulation buffer holds at most MaxBuf tokens (the code sets no limit).
MaxBuf == 7
\* Number of sources that can exist at the path, one after the other.
MaxGen == 2
\* The cover-art directory holds at most MaxEntries entries, with
\* modification times in 1..MaxMtime.
MaxEntries == 3
MaxMtime == 2

\* ----------------------------------------------------------- the tokens
Code(c) == [tag |-> "code", val |-> c]
Length(n) == [tag |-> "length", val |-> n]
Data(p) == [tag |-> "data", val |-> p]
ItemClose == [tag |-> "/item", val |-> ""]
Newline == [tag |-> "space", val |-> "\n"]

\* Python's None, for the text fields and for picture_file.
None == "<None>"
NoFile == <<>>

\* The four codes of ESSENTIAL_FIELDS and one code outside it ("mper").
TitleCode == "6d696e6d"
CommentCode == "61736370"
AlbumCode == "6173616c"
PictureCode == "50494354"
OtherCode == "6d706572"

\* The table with a fifth code routed to the album.
ESSENTIAL_FIELDS_AND_ONE ==
    [c \in {TitleCode, CommentCode, AlbumCode, PictureCode, OtherCode} |->
        CASE c = TitleCode -> "track_name"
          [] c = CommentCode -> "comment"
          [] c = AlbumCode -> "album"
          [] c = PictureCode -> "picture_data"
          [] c = OtherCode -> "album"]

ESSENTIAL_FIELDS ==
    [c \in {TitleCode, CommentCode, AlbumCode, PictureCode} |->
        CASE c = TitleCode -> "track_name"
          [] c = CommentCode -> "comment"
          [] c = AlbumCode -> "album"
          [] c = PictureCode -> "picture_data"]

\* ------------------------------------------------------------- payloads
\* Base64 payloads of the model: "QQ==" is the byte 'A', "/w==" the byte
\* 0xFF (not valid UTF-8), "iVBORw==" stands for the bytes of a PNG image,
\* "QQ" has incorrect padding.
TextPayload == "QQ=="
BadUtf8Payload == "/w=="
PngPayload == "iVBORw=="
BadB64Payload == "QQ"

\* base64.b64decode: the decoded bytes, or "error" (binascii.Error).
b64decode(p) ==
    CASE p = TextPayload -> "A"
      [] p = BadUtf8Payload -> "\\xff"
      [] p = PngPayload -> "\\x89PNG"
      [] OTHER -> "error"

\* bytes.decode("utf-8", errors="ignore"): invalid bytes are dropped.
decode_ignore(bytes) ==
    CASE bytes = "A" -> "A"
      [] bytes = "\\xff" -> ""
      [] bytes = "\\x89PNG" -> "PNG"
      [] OTHER -> ""

\* bytes.decode("utf-8", errors="replace"): never raises; every invalid
\* byte becomes U+FFFD.
decode_replace(bytes) ==
    CASE bytes = "A" -> "A"
      [] bytes = "\\xff" -> "\\ufffd"
      [] bytes = "\\x89PNG" -> "\\ufffdPNG"
      [] OTHER -> ""

\* Image.open(BytesIO(bytes)).format: the detected format, or "error"
\* (PIL raises UnidentifiedImageError when no format is detected).  An image
\* that Image.open returns comes from a format plugin and carries that
\* plugin's format name, so the result is never None.
image_format(bytes) == IF bytes = "\\x89PNG" THEN "PNG" ELSE "error"

\* str.lower() on the format names and the suffixes of the model.
lower(fmt) ==
    CASE fmt = "PNG" -> "png"
      [] fmt = ".JPG" -> ".jpg"
      [] OTHER -> fmt

\* int() on the digit strings of the model.
int(digits) == IF digits = "0" THEN 0 ELSE IF digits = "00" THEN 0 ELSE 5

\* ---------------------------------------------------------- the parsing
IsSpace(t) == t.tag = "space"

RECURSIVE lstrip(_)
lstrip(s) == IF s # <<>> /\ IsSpace(Head(s)) THEN lstrip(Tail(s)) ELSE s

RECURSIVE rstrip(_)
rstrip(s) ==
    IF s # <<>> /\ IsSpace(s[Len(s)]) THEN rstrip(SubSeq(s, 1, Len(s) - 1)) ELSE s

\* str.strip()
strip(s) == rstrip(lstrip(s))

\* buffer.endswith("</item>")
endswith_item(buf) == buf # <<>> /\ buf[Len(buf)] = ItemClose

\* re.search: the leftmost match, here the first token with the tag; 0 if none.
search(tag, buf) ==
    IF \E i \in 1..Len(buf) : buf[i].tag = tag
    THEN CHOOSE i \in 1..Len(buf) :
            /\ buf[i].tag = tag
            /\ \A j \in 1..(i - 1) : buf[j].tag # tag
    ELSE 0

\* length = int(length_match.group(1)) if length_match else 0
frame_length(buf) ==
    IF search("length", buf) = 0 THEN 0 ELSE int(buf[search("length", buf)].val)

code_match(buf) == search("code", buf) # 0
data_match(buf) == search("data", buf) # 0
frame_code(buf) == buf[search("code", buf)].val
frame_data(buf) == buf[search("data", buf)].val

\* --------------------------------------------- the stream, as delivered
\* An observer of the stream itself, apart from the code's parsing: how
\* many complete title items the stream has delivered (counted up to
\* FramesCounted) and the text of the last one.  An item runs from the
\* previous </item> to its own, and is counted when it is exactly the title
\* code, a length above 0, a decodable payload and the closing delimiter.
FramesCounted == 2

NothingDelivered == [count |-> 0, last |-> None]

IsTitleItem(item) ==
    /\ Len(item) = 3
    /\ item[1] = Code(TitleCode)
    /\ item[2].tag = "length" /\ int(item[2].val) > 0
    /\ item[3].tag = "data" /\ b64decode(item[3].val) # "error"

Counted(d, item) ==
    IF IsTitleItem(item)
    THEN [count |-> IF d.count < FramesCounted THEN d.count + 1 ELSE FramesCounted,
          last |-> decode_replace(b64decode(item[3].val))]
    ELSE d

\* The tokens of buf after its last </item>: the item the stream has begun.
RECURSIVE OpenItem(_)
OpenItem(buf) ==
    IF buf = <<>> \/ buf[Len(buf)] = ItemClose THEN <<>>
    ELSE Append(OpenItem(SubSeq(buf, 1, Len(buf) - 1)), buf[Len(buf)])

\* d after the stream delivers tokens, item being the item begun so far.
RECURSIVE Deliver(_, _, _)
Deliver(d, item, tokens) ==
    IF tokens = <<>> THEN d
    ELSE IF Head(tokens) = ItemClose
         THEN Deliver(Counted(d, item), <<>>, Tail(tokens))
         ELSE Deliver(d, Append(item, Head(tokens)), Tail(tokens))

\* ----------------------------------------------------- most_recent_cover
\* A directory that exists with its entries in the order of iterdir, each
\* a name with its st_mtime; the directory that does not exist; the value
\* of most_recent before any call.
Directory(entries) == [exists |-> TRUE, entries |-> entries]
Missing == [exists |-> FALSE, entries |-> <<>>]
NotCalled == "<not called>"

\* The file names of the model, and Path.suffix on them: the part from the
\* last dot on, "" for a name with no dot but a leading one.
Names == {"a.png", "b.JPG", "c.txt", ".png"}
suffix(name) ==
    CASE name = "a.png" -> ".png"
      [] name = "b.JPG" -> ".JPG"
      [] name = "c.txt" -> ".txt"
      [] name = ".png" -> ""

\* ('.jpg', '.jpeg', '.png', '.gif', '.bmp')
IMAGE_SUFFIXES == {".jpg", ".jpeg", ".png", ".gif", ".bmp"}

\* f.suffix.lower() in (...)
is_candidate(f) == lower(suffix(f.name)) \in IMAGE_SUFFIXES

\* list.sort(key=st_mtime) without reverse=True: ascending, entries of
\* equal time in their earlier order.
RECURSIVE sort_by_mtime(_)
sort_by_mtime(s) ==
    IF s = <<>> THEN <<>>
    ELSE LET rest == sort_by_mtime(SubSeq(s, 1, Len(s) - 1))
             x == s[Len(s)]
             k == Cardinality({i \in 1..Len(rest) : rest[i].mtime <= x.mtime})
         IN SubSeq(rest, 1, k) \o <<x>> \o SubSeq(rest, k + 1, Len(rest))

\* list.sort(key=st_mtime, reverse=True): descending, and stable, entries
\* of equal time staying in the order they had.
RECURSIVE sort_by_mtime_reverse(_)
sort_by_mtime_reverse(s) ==
    IF s = <<>> THEN <<>>
    ELSE LET rest == sort_by_mtime_reverse(SubSeq(s, 1, Len(s) - 1))
             x == s[Len(s)]
             k == Cardinality({i \in 1..Len(rest) : rest[i].mtime >= x.mtime})
         IN SubSeq(rest, 1, k) \o <<x>> \o SubSeq(rest, k + 1, Len(rest))

most_recent_cover(dir) ==
    IF ~dir.exists THEN None
    ELSE LET candidates == SelectSeq(dir.entries, is_candidate) IN
         IF candidates = <<>> THEN None
         ELSE sort_by_mtime_reverse(candidates)[1].name

\* ------------------------------------------------------------ the state
VARIABLES
    pc,            \* where the listener thread is in metadata_listener
    buffer,        \* its accumulation buffer (a sequence of tokens)
    handle,        \* the source its open handle refers to, 0 when none is open
    field_name,    \* its local field_name
    text,          \* its local text
    ext,           \* its local ext
    img_file,      \* its local img_file
    outcome,       \* what became of the last completed frame (observer)
    delivered,     \* the title items the stream has delivered (observer)
    current_song,  \* the shared dictionary
    buffer_lock,   \* who holds the lock: "free", "listener" or "ui"
    now,           \* the wall clock read by time.time()
    source,        \* the source at pipe_path, 0 when the path does not exist
    created,       \* how many sources have existed at pipe_path
    files,         \* the files of the cover-art directory
    ui_pc,         \* where the UI thread is in refresh_ui
    snapshot,      \* the locals of refresh_ui
    cover_dir,     \* the cover-art directory as most_recent_cover finds it
    most_recent    \* what the last call of most_recent_cover returned

listener_vars ==
    <<pc, buffer, handle, field_name, text, ext, img_file, outcome, delivered>>
ui_vars == <<ui_pc, snapshot>>
env_vars == <<now, source, created>>
cover_vars == <<cover_dir, most_recent>>
vars == <<pc, buffer, handle, field_name, text, ext, img_file, outcome, delivered,
          current_song, buffer_lock, now, source, created, files, ui_pc, snapshot,
          cover_dir, most_recent>>

\* The locals of refresh_ui before they are assigned.
NoSnapshot ==
    [track |-> None, artist |-> None, album |-> None,
     picture_file |-> NoFile, last_update |-> 0]

\* The state after the module is loaded and both threads are started.
Startup ==
    /\ pc = "exists"
    /\ buffer = <<>>
    /\ handle = 0
    /\ field_name = None
    /\ text = None
    /\ ext = None
    /\ img_file = NoFile
    /\ outcome = "none"
    /\ delivered = NothingDelivered
    /\ current_song = [track_name |-> None, comment |-> None, album |-> None,
                       picture_file |-> NoFile, last_update |-> 0]
    /\ buffer_lock = "free"
    /\ now = 1
    /\ source \in {0, 1}
    /\ created = source
    /\ files = {}
    /\ ui_pc = "idle"
    /\ snapshot = NoSnapshot
    /\ most_recent = NotCalled

\* os.makedirs(COVER_ART_DIR, exist_ok=True): the directory is there, here
\* with nothing in it.
Init == Startup /\ cover_dir = Directory(<<>>)

\* ------------------------------------------------------ the environment
\* Time passes.
Tick ==
    /\ now < MaxClock
    /\ now' = now + 1
    /\ UNCHANGED <<listener_vars, current_song, buffer_lock, source, created,
                   files, ui_vars, cover_vars>>

\* The system clock is set back (time.time() is the wall clock).
SetClockBack ==
    /\ \E t \in 1..(now - 1) : now' = t
    /\ UNCHANGED <<listener_vars, current_song, buffer_lock, source, created,
                   files, ui_vars, cover_vars>>

\* The producer creates the source at pipe_path.  The source found at
\* startup is numbered 1; a source created later, as the n-th that has
\* existed, is numbered n + 1.
CreateSource ==
    /\ source = 0
    /\ created < MaxGen
    /\ created' = created + 1
    /\ source' = created' + 1
    /\ UNCHANGED <<listener_vars, current_song, buffer_lock, now, files, ui_vars, cover_vars>>

\* The source is removed from pipe_path; an open handle keeps referring to it.
RemoveSource ==
    /\ source # 0
    /\ source' = 0
    /\ UNCHANGED <<listener_vars, current_song, buffer_lock, now, created,
                   files, ui_vars, cover_vars>>

\* --------------------------------------------------------- the listener
\* The check of line 70 never finding the path.
CheckSourceNeverFinds ==
    /\ pc = "exists"
    /\ pc' = "sleep_missing"
    /\ UNCHANGED <<buffer, handle, field_name, text, ext, img_file, outcome,
                   delivered, current_song, buffer_lock, env_vars, files, ui_vars, cover_vars>>

\* if not os.path.exists(pipe_path)
CheckSource ==
    /\ pc = "exists"
    /\ pc' = IF source = 0 THEN "sleep_missing" ELSE "open"
    /\ UNCHANGED <<buffer, handle, field_name, text, ext, img_file, outcome,
                   delivered, current_song, buffer_lock, env_vars, files, ui_vars, cover_vars>>

\* time.sleep(1.0); continue
SleepMissing ==
    /\ pc = "sleep_missing"
    /\ pc' = "exists"
    /\ UNCHANGED <<buffer, handle, field_name, text, ext, img_file, outcome,
                   delivered, current_song, buffer_lock, env_vars, files, ui_vars, cover_vars>>

\* with open(pipe_path, "r") as pipe
OpenPipe ==
    /\ pc = "open"
    /\ source # 0
    /\ handle' = source
    /\ pc' = "readline"
    /\ UNCHANGED <<buffer, field_name, text, ext, img_file, outcome,
                   delivered, current_song, buffer_lock, env_vars, files, ui_vars, cover_vars>>

\* open() raises (the path was removed after the check): caught at line 126.
OpenRaises ==
    /\ pc = "open"
    /\ source = 0
    /\ pc' = "except"
    /\ UNCHANGED <<buffer, handle, field_name, text, ext, img_file, outcome,
                   delivered, current_song, buffer_lock, env_vars, files, ui_vars, cover_vars>>

\* line = pipe.readline() returns a line; buffer += line.strip(); the
\* endswith test.  Only the source still at pipe_path has a producer.  A new
\* line clears the observer of the previous frame.
ReadLine(line) ==
    /\ pc = "readline"
    /\ handle # 0 /\ handle = source
    /\ buffer = <<>> \/ Len(buffer) + Len(strip(line)) <= MaxBuf
    /\ buffer' = buffer \o strip(line)
    /\ pc' = IF endswith_item(buffer') THEN "frame" ELSE "readline"
    /\ outcome' = IF endswith_item(buffer') THEN "none" ELSE outcome
    /\ delivered' = Deliver(delivered, OpenItem(buffer), strip(line))
    /\ UNCHANGED <<handle, field_name, text, ext, img_file,
                   current_song, buffer_lock, env_vars, files, ui_vars, cover_vars>>

\* readline() returns '' (no data, or no producer left): if not line
ReadNothing ==
    /\ pc = "readline"
    /\ pc' = "sleep_empty"
    /\ UNCHANGED <<buffer, handle, field_name, text, ext, img_file, outcome,
                   delivered, current_song, buffer_lock, env_vars, files, ui_vars, cover_vars>>

\* time.sleep(0.1); continue
SleepEmpty ==
    /\ pc = "sleep_empty"
    /\ pc' = "readline"
    /\ UNCHANGED <<buffer, handle, field_name, text, ext, img_file, outcome,
                   delivered, current_song, buffer_lock, env_vars, files, ui_vars, cover_vars>>

\* readline() raises (an I/O or text-decoding error): the with statement
\* closes the handle and the exception is caught at line 126.
ReadRaises ==
    /\ pc = "readline"
    /\ handle' = 0
    /\ pc' = "except"
    /\ UNCHANGED <<buffer, field_name, text, ext, img_file, outcome,
                   delivered, current_song, buffer_lock, env_vars, files, ui_vars, cover_vars>>

\* Without the try of line 73 the exception ends the thread.
ExceptionEscapes ==
    /\ pc = "except"
    /\ pc' = "terminated"
    /\ UNCHANGED <<buffer, handle, field_name, text, ext, img_file, outcome,
                   delivered, current_song, buffer_lock, env_vars, files, ui_vars, cover_vars>>

\* except Exception: print; time.sleep(1.0); back to the outer while True
HandleException ==
    /\ pc = "except"
    /\ pc' = "exists"
    /\ UNCHANGED <<buffer, handle, field_name, text, ext, img_file, outcome,
                   delivered, current_song, buffer_lock, env_vars, files, ui_vars, cover_vars>>

\* ------------------------------------------------ the item decoder steps
\* Line 85 left out: no frame counts as of length 0.
zero_length_ignored(buf) == FALSE

\* if length == 0
zero_length(buf) == frame_length(buf) = 0

\* if code_match and data_match
well_formed(buf) == code_match(buf) /\ data_match(buf)

\* if code not in ESSENTIAL_FIELDS ... field_name = ESSENTIAL_FIELDS[code]
recognized(code) == code \in DOMAIN ESSENTIAL_FIELDS

\* os.path.join(cover_dir, f"cover_art_{ts}.{ext}")
cover_path(ts, e) == <<"cover_art", ts, e>>

\* int(time.time() * 1000)
millis(t) == t \div TicksPerMs

\* Lines 83-107 and 117 on a completed frame: everything up to the first
\* step that reads the clock, writes a file or takes the lock.
DecodeItem ==
    /\ pc = "frame"
    /\ IF zero_length(buffer)
       THEN /\ buffer' = <<>>
            /\ pc' = "readline"
            /\ outcome' = "zero_length"
            /\ UNCHANGED <<field_name, text, ext>>
       ELSE IF ~well_formed(buffer)
       THEN /\ pc' = "reset"
            /\ outcome' = "malformed"
            /\ UNCHANGED <<buffer, field_name, text, ext>>
       ELSE IF ~recognized(frame_code(buffer))
       THEN /\ buffer' = <<>>
            /\ pc' = "readline"
            /\ outcome' = "unrecognized"
            /\ UNCHANGED <<field_name, text, ext>>
       ELSE /\ field_name' = ESSENTIAL_FIELDS[frame_code(buffer)]
            /\ UNCHANGED buffer
            /\ LET decoded_bytes == b64decode(frame_data(buffer)) IN
               IF decoded_bytes = "error"
               THEN /\ pc' = "reset"
                    /\ outcome' = "decode_error"
                    /\ UNCHANGED <<text, ext>>
               ELSE IF field_name' = "picture_data"
               THEN IF image_format(decoded_bytes) = "error"
                    THEN /\ pc' = "reset"
                         /\ outcome' = "image_error"
                         /\ UNCHANGED <<text, ext>>
                    ELSE /\ ext' = IF image_format(decoded_bytes) = None
                                    THEN "jpg"
                                    ELSE lower(image_format(decoded_bytes))
                         /\ pc' = "timestamp"
                         /\ UNCHANGED <<text, outcome>>
               ELSE /\ text' = decode_replace(decoded_bytes)
                    /\ pc' = "lock_text"
                    /\ UNCHANGED <<ext, outcome>>
    /\ UNCHANGED <<handle, img_file, delivered, current_song, buffer_lock, env_vars,
                   files, ui_vars, cover_vars>>

\* ts = int(time.time() * 1000); img_file = os.path.join(...)
TakeTimestamp ==
    /\ pc = "timestamp"
    /\ img_file' = cover_path(millis(now), ext)
    /\ pc' = "save"
    /\ UNCHANGED <<buffer, handle, field_name, text, ext, outcome,
                   delivered, current_song, buffer_lock, env_vars, files, ui_vars, cover_vars>>

\* Line 110 left out: the path is written into current_song with no file
\* saved under it.
SaveImageSkipped ==
    /\ pc = "save"
    /\ pc' = "lock_picture"
    /\ UNCHANGED <<buffer, handle, field_name, text, ext, img_file, outcome,
                   delivered, current_song, buffer_lock, env_vars, files, ui_vars, cover_vars>>

\* img.save(img_file) succeeds: the file exists afterwards.
SaveImage ==
    /\ pc = "save"
    /\ files' = files \cup {img_file}
    /\ pc' = "lock_picture"
    /\ UNCHANGED <<buffer, handle, field_name, text, ext, img_file, outcome,
                   delivered, current_song, buffer_lock, env_vars, ui_vars, cover_vars>>

\* Without the try of line 105 and that of line 101, the exception of
\* img.save reaches line 126: the handle is closed.
SaveRaisesUncaught ==
    /\ pc = "save"
    /\ handle' = 0
    /\ outcome' = "image_error"
    /\ pc' = "except"
    /\ UNCHANGED <<buffer, field_name, text, ext, img_file,
                   delivered, current_song, buffer_lock, env_vars, files, ui_vars, cover_vars>>

\* img.save(img_file) raises (before or after creating the file): caught at
\* line 114.
SaveRaises ==
    /\ pc = "save"
    /\ \E file_created \in BOOLEAN :
          files' = IF file_created THEN files \cup {img_file} ELSE files
    /\ outcome' = "image_error"
    /\ pc' = "reset"
    /\ UNCHANGED <<buffer, handle, field_name, text, ext, img_file,
                   delivered, current_song, buffer_lock, env_vars, ui_vars, cover_vars>>

\* with buffer_lock: (line 111)
AcquireForPicture ==
    /\ pc = "lock_picture"
    /\ buffer_lock = "free"
    /\ buffer_lock' = "listener"
    /\ pc' = "write_picture"
    /\ UNCHANGED <<buffer, handle, field_name, text, ext, img_file, outcome,
                   delivered, current_song, env_vars, files, ui_vars, cover_vars>>

\* current_song["picture_file"] = img_file
WritePicture ==
    /\ pc = "write_picture"
    /\ current_song' = [current_song EXCEPT !.picture_file = img_file]
    /\ pc' = "stamp_picture"
    /\ UNCHANGED <<buffer, handle, field_name, text, ext, img_file, outcome,
                   delivered, buffer_lock, env_vars, files, ui_vars, cover_vars>>

\* current_song["last_update"] = time.time()
StampPicture ==
    /\ pc = "stamp_picture"
    /\ current_song' = [current_song EXCEPT !.last_update = now]
    /\ pc' = "unlock_picture"
    /\ UNCHANGED <<buffer, handle, field_name, text, ext, img_file, outcome,
                   delivered, buffer_lock, env_vars, files, ui_vars, cover_vars>>

\* the end of the with block of line 111
ReleaseAfterPicture ==
    /\ pc = "unlock_picture"
    /\ buffer_lock' = "free"
    /\ outcome' = "picture_updated"
    /\ pc' = "reset"
    /\ UNCHANGED <<buffer, handle, field_name, text, ext, img_file,
                   delivered, current_song, env_vars, files, ui_vars, cover_vars>>

\* Line 118 without the lock: the text is assigned whoever holds the lock.
AcquireForTextUnlocked ==
    /\ pc = "lock_text"
    /\ pc' = "write_text"
    /\ UNCHANGED <<buffer, handle, field_name, text, ext, img_file, outcome,
                   delivered, current_song, buffer_lock, env_vars, files, ui_vars, cover_vars>>

\* with buffer_lock: (line 118)
AcquireForText ==
    /\ pc = "lock_text"
    /\ buffer_lock = "free"
    /\ buffer_lock' = "listener"
    /\ pc' = "write_text"
    /\ UNCHANGED <<buffer, handle, field_name, text, ext, img_file, outcome,
                   delivered, current_song, env_vars, files, ui_vars, cover_vars>>

\* current_song[field_name] = text
WriteText ==
    /\ pc = "write_text"
    /\ current_song' = [current_song EXCEPT ![field_name] = text]
    /\ pc' = "stamp_text"
    /\ UNCHANGED <<buffer, handle, field_name, text, ext, img_file, outcome,
                   delivered, buffer_lock, env_vars, files, ui_vars, cover_vars>>

\* Line 120 left out: the text is assigned and last_update is not.
StampTextSkipped ==
    /\ pc = "stamp_text"
    /\ pc' = "unlock_text"
    /\ UNCHANGED <<buffer, handle, field_name, text, ext, img_file, outcome,
                   delivered, current_song, buffer_lock, env_vars, files, ui_vars, cover_vars>>

\* current_song["last_update"] = time.time()
StampText ==
    /\ pc = "stamp_text"
    /\ current_song' = [current_song EXCEPT !.last_update = now]
    /\ pc' = "unlock_text"
    /\ UNCHANGED <<buffer, handle, field_name, text, ext, img_file, outcome,
                   delivered, buffer_lock, env_vars, files, ui_vars, cover_vars>>

\* Lines 119-120 outside a with block: the lock, once taken, is kept.
ReleaseAfterTextKeepsLock ==
    /\ pc = "unlock_text"
    /\ outcome' = "text_updated"
    /\ pc' = "reset"
    /\ UNCHANGED <<buffer, handle, field_name, text, ext, img_file,
                   delivered, current_song, buffer_lock, env_vars, files, ui_vars, cover_vars>>

\* the end of the with block of line 118
ReleaseAfterText ==
    /\ pc = "unlock_text"
    /\ buffer_lock' = "free"
    /\ outcome' = "text_updated"
    /\ pc' = "reset"
    /\ UNCHANGED <<buffer, handle, field_name, text, ext, img_file,
                   delivered, current_song, env_vars, files, ui_vars, cover_vars>>

\* Line 125 left out: the frame stays in the buffer.
ResetBufferSkipped ==
    /\ pc = "reset"
    /\ pc' = "readline"
    /\ UNCHANGED <<buffer, handle, field_name, text, ext, img_file, outcome,
                   delivered, current_song, buffer_lock, env_vars, files, ui_vars, cover_vars>>

\* buffer = "" (line 125).  The locals of the finished frame are cleared
\* with it: the code assigns each of them again before it reads it.
ResetBuffer ==
    /\ pc = "reset"
    /\ buffer' = <<>>
    /\ field_name' = None
    /\ text' = None
    /\ ext' = None
    /\ img_file' = NoFile
    /\ pc' = "readline"
    /\ UNCHANGED <<handle, outcome, delivered, current_song, buffer_lock, env_vars,
                   files, ui_vars, cover_vars>>

\* ------------------------------------------------------------ refresh_ui
EmDash == "\\u2014"

\* current_song.get(key) or EmDash
or_dash(v) == IF v = None \/ v = "" THEN EmDash ELSE v

\* with buffer_lock: (line 192)
UiAcquire ==
    /\ ui_pc = "idle"
    /\ buffer_lock = "free"
    /\ buffer_lock' = "ui"
    /\ ui_pc' = "read_track"
    /\ UNCHANGED <<listener_vars, current_song, env_vars, files, snapshot,
                   cover_vars>>

UiReadTrack ==
    /\ ui_pc = "read_track"
    /\ snapshot' = [snapshot EXCEPT !.track = or_dash(current_song.track_name)]
    /\ ui_pc' = "read_artist"
    /\ UNCHANGED <<listener_vars, current_song, buffer_lock, env_vars, files,
                   cover_vars>>

UiReadArtist ==
    /\ ui_pc = "read_artist"
    /\ snapshot' = [snapshot EXCEPT !.artist = or_dash(current_song.comment)]
    /\ ui_pc' = "read_album"
    /\ UNCHANGED <<listener_vars, current_song, buffer_lock, env_vars, files,
                   cover_vars>>

UiReadAlbum ==
    /\ ui_pc = "read_album"
    /\ snapshot' = [snapshot EXCEPT !.album = or_dash(current_song.album)]
    /\ ui_pc' = "read_picture"
    /\ UNCHANGED <<listener_vars, current_song, buffer_lock, env_vars, files,
                   cover_vars>>

UiReadPicture ==
    /\ ui_pc = "read_picture"
    /\ snapshot' = [snapshot EXCEPT !.picture_file = current_song.picture_file]
    /\ ui_pc' = "read_last_update"
    /\ UNCHANGED <<listener_vars, current_song, buffer_lock, env_vars, files,
                   cover_vars>>

UiReadLastUpdate ==
    /\ ui_pc = "read_last_update"
    /\ snapshot' = [snapshot EXCEPT !.last_update = current_song.last_update]
    /\ ui_pc' = "unlock"
    /\ UNCHANGED <<listener_vars, current_song, buffer_lock, env_vars, files,
                   cover_vars>>

\* the end of the with block of line 192
UiRelease ==
    /\ ui_pc = "unlock"
    /\ buffer_lock' = "free"
    /\ ui_pc' = "render"
    /\ UNCHANGED <<listener_vars, current_song, env_vars, files, snapshot,
                   cover_vars>>

\* Lines 199-228: the widgets are drawn from the locals and refresh_ui
\* returns (its locals are gone); the widgets are not part of the model.
UiRender ==
    /\ ui_pc = "render"
    /\ snapshot' = NoSnapshot
    /\ ui_pc' = "idle"
    /\ UNCHANGED <<listener_vars, current_song, buffer_lock, env_vars, files,
                   cover_vars>>

\* picture_file = most_recent_cover() (line 207)
MostRecentCover ==
    /\ most_recent = NotCalled
    /\ most_recent' = most_recent_cover(cover_dir)
    /\ UNCHANGED <<listener_vars, current_song, buffer_lock, env_vars, files,
                   ui_vars, cover_dir>>

\* ------------------------------------------------------------ the lines
\* One item as the producer writes it, and a line of the stream.
Item(c, n, p) == <<Code(c), Length(n), Data(p), ItemClose>>
Line(tokens) == tokens \o <<Newline>>

\* The head of an item (the line before its data) and the rest of it.
HeaderLine == Line(<<Code(CommentCode), Length("5")>>)
DataLine == Line(<<Data(BadUtf8Payload), ItemClose>>)

\* Lines that each hold one whole item: the two title texts, a picture,
\* and items the decoder drops or fails on.
ItemLines ==
    { Line(Item(TitleCode, "5", TextPayload)),
      Line(Item(TitleCode, "5", BadUtf8Payload)),
      Line(Item(PictureCode, "5", PngPayload)),
      Line(Item(PictureCode, "5", TextPayload)),
      Line(Item(TitleCode, "5", BadB64Payload)),
      Line(Item(OtherCode, "5", TextPayload)),
      Line(<<Code(AlbumCode), Length("0"), ItemClose>>),
      Line(Item(TitleCode, "00", TextPayload)),
      Line(<<Code(AlbumCode), Data(TextPayload), ItemClose>>),
      Line(<<Code(TitleCode), Length("5"), ItemClose>>),
      Line(<<Length("5"), Data(TextPayload), ItemClose>>) }

\* Every line of the listener's specification: whole items, an item split
\* over two lines, an empty line, and two items on one line.
Lines ==
    ItemLines \cup
    { HeaderLine, DataLine, Line(<<>>),
      Line(Item(TitleCode, "5", TextPayload) \o Item(TitleCode, "5", BadUtf8Payload)) }

\* ----------------------------------------------------- the specifications
\* The steps of the listener that do not depend on how the source comes and
\* goes, reading its lines from the set L.
Pipeline(L) ==
    \/ CheckSource \/ SleepMissing \/ OpenPipe
    \/ (\E line \in L : ReadLine(line))
    \/ ReadNothing \/ SleepEmpty \/ ReadRaises \/ HandleException
    \/ DecodeItem \/ TakeTimestamp \/ SaveImage \/ SaveRaises
    \/ AcquireForPicture \/ WritePicture \/ StampPicture \/ ReleaseAfterPicture
    \/ AcquireForText \/ WriteText \/ StampText \/ ReleaseAfterText
    \/ ResetBuffer

Ui ==
    \/ UiAcquire \/ UiReadTrack \/ UiReadArtist \/ UiReadAlbum
    \/ UiReadPicture \/ UiReadLastUpdate \/ UiRelease \/ UiRender

\* The listener alone on every line of the model, under a free wall clock.
Next == Tick \/ SetClockBack \/ Pipeline(Lines)

Spec == Init /\ [][Next]_vars

\* The listener and refresh_ui together: a title, an album, a picture, a
\* frame the decoder drops and one it fails on.
UiLines ==
    { Line(Item(TitleCode, "5", TextPayload)),
      Line(Item(AlbumCode, "5", BadUtf8Payload)),
      Line(Item(PictureCode, "5", PngPayload)),
      Line(<<Code(AlbumCode), Length("0"), ItemClose>>),
      Line(Item(TitleCode, "5", BadB64Payload)) }

UiNext == Tick \/ SetClockBack \/ Pipeline(UiLines) \/ Ui

UiSpec == Init /\ [][UiNext]_vars

\* The stream reader while the source comes and goes at pipe_path: a good
\* frame, a malformed one, an undecodable one and a partial one.
SourceLines ==
    { Line(Item(TitleCode, "5", TextPayload)),
      Line(<<Code(TitleCode), Length("5"), ItemClose>>),
      Line(Item(PictureCode, "5", BadB64Payload)),
      Line(Item(PictureCode, "5", TextPayload)),
      Line(Item(PictureCode, "5", PngPayload)),
      HeaderLine }

SourceNext == CreateSource \/ RemoveSource \/ OpenRaises \/ Pipeline(SourceLines)

SourceSpec == Init /\ [][SourceNext]_vars

\* The listener thread keeps running: whenever it has a step to take, it
\* takes one.
LiveSpec == SourceSpec /\ WF_vars(OpenRaises \/ Pipeline(SourceLines))

\* most_recent_cover on every directory of the model: missing, or up to
\* MaxEntries entries of different names, in any order, with any times.
Entries == [name : Names, mtime : 1..MaxMtime]
Listings(n) ==
    {s \in [1..n -> Entries] : \A i, j \in 1..n : i # j => s[i].name # s[j].name}
Directories ==
    {Missing} \cup {Directory(s) : s \in UNION {Listings(n) : n \in 0..MaxEntries}}

CoverInit == Startup /\ cover_dir \in Directories

CoverNext == MostRecentCover

CoverSpec == CoverInit /\ [][CoverNext]_vars

\* The listener and refresh_ui contending for the lock, both scheduled
\* fairly: each thread keeps taking steps while it has one to take, and a
\* thread waiting for the lock gets it if the lock is free again and again.
LockLines ==
    { Line(Item(TitleCode, "5", TextPayload)),
      Line(Item(PictureCode, "5", PngPayload)) }

LockNext == Pipeline(LockLines) \/ Ui

LockSpec ==
    /\ Init /\ [][LockNext]_vars
    /\ WF_vars(Pipeline(LockLines))
    /\ WF_vars(Ui)
    /\ SF_vars(AcquireForText) /\ SF_vars(AcquireForPicture)
    /\ SF_vars(UiAcquire)

\* ----------------------------------------------------------- the claims
\* Where the listener is inside one of its two critical sections.
WritePositions == {"write_picture", "write_text"}
StampPositions == {"stamp_picture", "stamp_text"}
UnlockPositions == {"unlock_picture", "unlock_text"}
CriticalPositions == WritePositions \cup StampPositions \cup UnlockPositions

\* Where the listener is working on a completed frame.
FramePositions ==
    {"frame", "timestamp", "save", "lock_picture", "lock_text", "reset"}
        \cup CriticalPositions

\* What a snapshot of song shows.
Shown(v) == IF v \in {None, ""} THEN EmDash ELSE v
SongView(song) ==
    [track |-> Shown(song.track_name), artist |-> Shown(song.comment),
     album |-> Shown(song.album), picture_file |-> song.picture_file,
     last_update |-> song.last_update]

\* How many of its five reads refresh_ui has made inside its with block.
ReadsDone ==
    CASE ui_pc = "read_track" -> 0
      [] ui_pc = "read_artist" -> 1
      [] ui_pc = "read_album" -> 2
      [] ui_pc = "read_picture" -> 3
      [] ui_pc = "read_last_update" -> 4
      [] ui_pc = "unlock" -> 5
      [] OTHER -> -1

\* C1: under every interleaving of the listener and refresh_ui, what
\* refresh_ui has read so far inside its with block, and the whole snapshot
\* once the five reads are made, is current_song as it stands with the
\* listener outside its critical sections, that is after a whole number of
\* completed updates: no value of an update is read together with the
\* last_update from before it, or the other way round.
C1_SnapshotIsWhole ==
    ReadsDone >= 0 =>
        /\ pc \notin CriticalPositions
        /\ ReadsDone >= 1 => snapshot.track = SongView(current_song).track
        /\ ReadsDone >= 2 => snapshot.artist = SongView(current_song).artist
        /\ ReadsDone >= 3 => snapshot.album = SongView(current_song).album
        /\ ReadsDone >= 4 =>
              snapshot.picture_file = SongView(current_song).picture_file
        /\ ReadsDone >= 5 => snapshot = SongView(current_song)

\* A snapshot is complete while the listener waits for the lock with the
\* next title, after an earlier update.
C1_Witness ==
    /\ ui_pc = "unlock"
    /\ pc = "lock_text"
    /\ snapshot.track = "A"
    /\ snapshot.last_update > 0

FieldsOf(song) == <<song.track_name, song.comment, song.album, song.picture_file>>

\* C6: every step that assigns trackName, artist, album or coverArtPath is
\* made under the lock and is followed, before the lock is released, by the
\* step that assigns time.time() to last_update; and no other step (a
\* dropped frame, a failed decode, a reconnect, refresh_ui) changes
\* last_update or a field.
C6_StampedWithEveryWrite ==
    [][ /\ FieldsOf(current_song') # FieldsOf(current_song) =>
              pc \in WritePositions
        /\ (pc \in WritePositions /\ pc' # pc) =>
              /\ pc' \in StampPositions
              /\ buffer_lock = "listener" /\ buffer_lock' = "listener"
        /\ (pc \in StampPositions /\ pc' # pc) =>
              /\ pc' \in UnlockPositions
              /\ current_song'.last_update = now
              /\ buffer_lock = "listener" /\ buffer_lock' = "listener"
        /\ current_song'.last_update # current_song.last_update =>
              pc \in StampPositions /\ pc' \in UnlockPositions
        /\ (buffer_lock = "listener" /\ buffer_lock' # "listener") =>
              pc \in UnlockPositions
      ]_vars

\* A picture update has been stamped, after the clock has moved on, while
\* refresh_ui waits for the lock.
C6_Witness ==
    /\ pc = "unlock_picture"
    /\ current_song.picture_file # NoFile
    /\ current_song.last_update = now
    /\ now > 1
    /\ ui_pc = "idle"

\* The first token of buf with the tag, as a set (empty when there is none).
FirstWith(tag, buf) ==
    {i \in 1..Len(buf) :
        buf[i].tag = tag /\ \A j \in 1..(i - 1) : buf[j].tag # tag}

\* The frame has no length tag, or its length is 0.
LengthZeroOrAbsent(buf) ==
    \A i \in FirstWith("length", buf) : buf[i].val \in {"0", "00"}

\* C2: from a completed frame whose length is 0, or that has no length tag,
\* the listener goes straight back to reading, whatever code and data the
\* frame carries: no field of current_song, last_update included, and no
\* cover-art file changes.
C2_ZeroLengthChangesNothing ==
    [][ (pc = "frame" /\ LengthZeroOrAbsent(buffer)) =>
            /\ current_song' = current_song
            /\ files' = files
            /\ pc' \in {"frame", "readline"}
      ]_vars

\* A frame of length 0 has been dropped after current_song was written.
C2_Witness ==
    /\ outcome = "zero_length"
    /\ pc = "readline"
    /\ current_song.track_name # None
    /\ current_song.last_update > 0

RecognizedCodes == {TitleCode, CommentCode, AlbumCode, PictureCode}

\* The frame has a code tag and its code is none of the four.
CodeUnrecognized(buf) ==
    \E i \in FirstWith("code", buf) : buf[i].val \notin RecognizedCodes

\* C3: from a completed frame whose code is none of the four recognized
\* codes the listener goes back to reading without an error: no field of
\* current_song, last_update included, changes, no cover-art file is
\* created, and no exception is raised or logged.
C3_UnrecognizedChangesNothing ==
    [][ (pc = "frame" /\ CodeUnrecognized(buffer)) =>
            /\ current_song' = current_song
            /\ files' = files
            /\ pc' \in {"frame", "readline", "reset"}
            /\ outcome' \notin {"decode_error", "image_error"}
      ]_vars

\* A frame with an unrecognized code has been dropped after current_song
\* was written.
C3_Witness ==
    /\ outcome = "unrecognized"
    /\ pc = "readline"
    /\ current_song.track_name # None
    /\ current_song.last_update > 0

EndsWithClose(buf) == Len(buf) > 0 /\ buf[Len(buf)].tag = "/item"

\* C10: the listener works on a frame exactly while the buffer ends with
\* the closing delimiter, and every way out of that work (zero length,
\* missing code or data, unrecognized code, base64 failure, image failure,
\* successful update) goes back to reading with the buffer empty.
C10_BufferEmptiedAfterFrame ==
    /\ [](pc \in FramePositions <=> EndsWithClose(buffer))
    /\ [][ (pc \in FramePositions /\ pc' \notin FramePositions) =>
              (pc' = "readline" /\ buffer' = <<>>)
         ]_vars

\* The listener is back at reading, with the buffer empty, after an image
\* it could not save.
C10_Witness ==
    /\ outcome = "image_error"
    /\ pc = "readline"
    /\ buffer = <<>>
    /\ files # {}

\* The two states of the stream reader.
WaitingForSource ==
    pc \in {"exists", "sleep_missing", "open", "except"} /\ handle = 0
Attached ==
    pc \in {"readline", "sleep_empty"} \cup FramePositions /\ handle # 0

\* C7: whatever the sequence of missing source, open failures, read
\* exceptions and malformed or undecodable frames, the listener is either
\* waiting for the source with no handle open (after an exception: closed)
\* or attached with a handle open; it is never anywhere else.
C7_ReaderNeverStops == WaitingForSource \/ Attached

\* The listener waits after a read exception that followed an undecodable
\* frame, the source having been removed.
C7_Witness ==
    /\ pc = "except"
    /\ handle = 0
    /\ outcome = "decode_error"
    /\ source = 0
    /\ buffer # <<>>

\* The frame is one whole item for a text field: its code, a length above
\* 0, a payload that base64-decodes, and the closing delimiter.
TextCodes == {TitleCode, CommentCode, AlbumCode}
FieldFor(c) ==
    CASE c = TitleCode -> "track_name"
      [] c = CommentCode -> "comment"
      [] c = AlbumCode -> "album"
WellFormedTextFrame(buf) ==
    /\ Len(buf) = 4
    /\ buf[1].tag = "code" /\ buf[1].val \in TextCodes
    /\ buf[2].tag = "length" /\ buf[2].val \notin {"0", "00"}
    /\ buf[3].tag = "data" /\ buf[3].val \in {TextPayload, BadUtf8Payload, PngPayload}
    /\ buf[4] = ItemClose
TextOf(p) ==
    CASE p = TextPayload -> "A"
      [] p = BadUtf8Payload -> "\\ufffd"
      [] p = PngPayload -> "\\ufffdPNG"

\* C4 (the first half): a well-formed text frame goes on to the update, and
\* the update assigns the text of its payload to the field of its code.
C4_FieldUpdated ==
    [][ /\ (pc = "frame" /\ WellFormedTextFrame(buffer) /\ pc' # pc) =>
              pc' = "lock_text"
        /\ (pc = "write_text" /\ WellFormedTextFrame(buffer) /\ pc' # pc) =>
              current_song'[FieldFor(buffer[1].val)] = TextOf(buffer[3].val)
      ]_vars

\* C4: for every well-formed completed frame with a recognized code and
\* length > 0, processing the frame updates the field the code maps to, and
\* last_update after the frame is strictly greater than before it.
C4_UpdatesAndStrictlyAdvances ==
    [][ /\ (pc = "frame" /\ WellFormedTextFrame(buffer) /\ pc' # pc) =>
              pc' = "lock_text"
        /\ (pc = "write_text" /\ WellFormedTextFrame(buffer) /\ pc' # pc) =>
              current_song'[FieldFor(buffer[1].val)] = TextOf(buffer[3].val)
        /\ (pc \in StampPositions /\ pc' # pc) =>
              current_song'.last_update > current_song.last_update
      ]_vars

\* C5: once the stream has delivered two complete title frames (each with
\* length > 0 and a decodable payload) and the listener is back at reading,
\* track_name holds the text of the later one.
C5_LastWriteWins ==
    (pc = "readline" /\ delivered.count >= 2) =>
        current_song.track_name = delivered.last

\* C8: while no source has existed the listener polls for it, with no
\* handle and without raising; and whenever the listener has no handle and
\* the source is present from then on, the listener comes to read lines
\* from a handle on that source.
C8_AttachesOnceSourceStays ==
    /\ [](created = 0 => (pc \in {"exists", "sleep_missing"} /\ handle = 0))
    /\ []((handle = 0 /\ [](source # 0)) => <>(handle = source /\ pc = "readline"))

\* The source was absent at startup and has been created once since
\* (number 2); the listener holds a handle on it and has a frame from it.
C8_Witness ==
    /\ source = 2
    /\ handle = 2
    /\ pc = "frame"

\* C9: whenever the listener is attached to a source that is no longer the
\* one at pipe_path (its reads yield nothing) and a source is present at
\* pipe_path from then on, the listener comes to hold a handle on the
\* source at pipe_path.
C9_ReattachesAfterClose ==
    []((handle # 0 /\ handle # source /\ [](source # 0)) => <>(handle = source))

\* The frame has a recognized code, a length above 0 and a payload.
RecognizedFrame(buf) ==
    /\ ~LengthZeroOrAbsent(buf)
    /\ \E i \in FirstWith("code", buf) : buf[i].val \in RecognizedCodes
    /\ FirstWith("data", buf) # {}

\* Its payload is not base64, or it is a picture frame whose payload is not
\* an image.
DecodeFails(buf) ==
    /\ RecognizedFrame(buf)
    /\ \E i \in FirstWith("code", buf), j \in FirstWith("data", buf) :
          \/ buf[j].val = BadB64Payload
          \/ buf[i].val = PictureCode /\ buf[j].val \in {TextPayload, BadUtf8Payload}

\* C11: a frame with a recognized code whose payload fails to decode as
\* base64 or as an image, and a picture whose save fails, leave every field
\* of current_song (picture_file and last_update included) as it was; the
\* listener goes on, on the same open handle, to empty the buffer and read
\* again, never to the handler of the reader loop; and a well-formed text
\* frame completed afterwards goes on to its update.
C11_FailureKeepsStateAndHandle ==
    [][ /\ (pc = "frame" /\ DecodeFails(buffer) /\ pc' # pc) =>
              /\ pc' = "reset"
              /\ current_song' = current_song /\ files' = files
              /\ handle' = handle
        /\ (pc = "save" /\ pc' \notin {"save", "lock_picture"}) =>
              /\ pc' = "reset"
              /\ current_song' = current_song
              /\ handle' = handle
        /\ (pc = "reset" /\ pc' # pc) =>
              /\ pc' = "readline" /\ buffer' = <<>>
              /\ current_song' = current_song
              /\ handle # 0 /\ handle' = handle
        /\ (pc = "frame" /\ WellFormedTextFrame(buffer) /\ pc' # pc) =>
              /\ pc' = "lock_text"
              /\ handle # 0 /\ handle' = handle
      ]_vars

\* A text frame goes to its update after a picture whose save failed having
\* created its file: picture_file is still unset.
C11_Witness ==
    /\ pc = "lock_text"
    /\ files # {}
    /\ current_song.picture_file = NoFile
    /\ handle # 0

\* A picture frame whose payload is base64 and is not an image of any
\* format.
UndetectablePicture(buf) ==
    /\ RecognizedFrame(buf)
    /\ \E i \in FirstWith("code", buf), j \in FirstWith("data", buf) :
          buf[i].val = PictureCode /\ buf[j].val \in {TextPayload, BadUtf8Payload}

\* C12: a picture frame whose payload base64-decodes and whose image format
\* cannot be detected is not rejected: the listener goes on with the
\* extension "jpg" to name the file cover_art_<millis>.jpg, and the path it
\* then writes into picture_file, stamping last_update, is that one.
C12_UndetectableSavedAsJpg ==
    [][ /\ (pc = "frame" /\ UndetectablePicture(buffer) /\ pc' # pc) =>
              pc' = "timestamp" /\ ext' = "jpg"
        /\ (pc = "timestamp" /\ pc' # pc) =>
              img_file' = cover_path(millis(now), ext)
        /\ (pc = "write_picture" /\ pc' # pc) =>
              current_song'.picture_file = img_file
        /\ (pc = "stamp_picture" /\ pc' # pc) =>
              current_song'.last_update = now
      ]_vars

\* C13: no save writes over a file that is there: every save that succeeds
\* writes to a path no earlier save wrote to (two pictures of one format
\* within one millisecond included), and the set of cover-art files only
\* grows.
C13_SaveNeverOverwrites ==
    [][ /\ files \subseteq files'
        /\ (pc = "save" /\ pc' = "lock_picture") =>
              (img_file \notin files /\ files' = files \cup {img_file})
      ]_vars

\* C13, as far as it goes: no file is ever deleted, and a save adds nothing
\* but its own file.
C13_FilesOnlyGrow ==
    [][ /\ files \subseteq files'
        /\ files' # files => (pc = "save" /\ files' = files \cup {img_file})
      ]_vars

\* A picture frame whose payload is the bytes of a PNG image.
PngPictureFrame(buf) ==
    /\ RecognizedFrame(buf)
    /\ \E i \in FirstWith("code", buf), j \in FirstWith("data", buf) :
          buf[i].val = PictureCode /\ buf[j].val = PngPayload

\* C15: a picture frame with a PNG payload goes on, with the extension
\* "png", to name the file cover_art_<millis>.png; its save creates that
\* file, which was not there before; picture_file is then set to that path
\* and last_update to the clock, track_name, comment and album staying as
\* they were.
C15_PngSavedAsNewFile ==
    [][ /\ (pc = "frame" /\ PngPictureFrame(buffer) /\ pc' # pc) =>
              pc' = "timestamp" /\ ext' = "png"
        /\ (pc = "timestamp" /\ ext = "png" /\ pc' # pc) =>
              img_file' = cover_path(millis(now), "png")
        /\ (pc = "save" /\ pc' = "lock_picture") =>
              (img_file \notin files /\ files' = files \cup {img_file})
        /\ (pc = "write_picture" /\ pc' # pc) =>
              current_song' = [current_song EXCEPT !.picture_file = img_file]
        /\ (pc = "stamp_picture" /\ pc' # pc) =>
              current_song' = [current_song EXCEPT !.last_update = now]
      ]_vars

\* C15, but for the file being new: the file of the save is there after it.
C15_PngSavedAndPublished ==
    [][ /\ (pc = "frame" /\ PngPictureFrame(buffer) /\ pc' # pc) =>
              pc' = "timestamp" /\ ext' = "png"
        /\ (pc = "timestamp" /\ ext = "png" /\ pc' # pc) =>
              img_file' = cover_path(millis(now), "png")
        /\ (pc = "save" /\ pc' = "lock_picture") =>
              files' = files \cup {img_file}
        /\ (pc = "write_picture" /\ pc' # pc) =>
              current_song' = [current_song EXCEPT !.picture_file = img_file]
        /\ (pc = "stamp_picture" /\ pc' # pc) =>
              current_song' = [current_song EXCEPT !.last_update = now]
      ]_vars

\* A text frame whose payload is base64 of bytes that are not valid UTF-8.
InvalidTextFrame(buf) ==
    /\ RecognizedFrame(buf)
    /\ \E i \in FirstWith("code", buf), j \in FirstWith("data", buf) :
          buf[i].val \in TextCodes /\ buf[j].val \in {BadUtf8Payload, PngPayload}

\* The field and the text such a frame is to produce.
FrameField(buf) == FieldFor(buf[CHOOSE i \in FirstWith("code", buf) : TRUE].val)
FrameText(buf) == TextOf(buf[CHOOSE j \in FirstWith("data", buf) : TRUE].val)

\* C16: a text frame whose payload decodes to bytes that are not valid text
\* raises nothing: it goes on to the update, as a valid payload does, the
\* field of its code is assigned the text with each invalid byte replaced
\* by U+FFFD, and last_update is assigned the clock in the same critical
\* section.
C16_InvalidTextStillUpdates ==
    [][ /\ (pc = "frame" /\ InvalidTextFrame(buffer) /\ pc' # pc) =>
              /\ pc' = "lock_text"
              /\ text' = FrameText(buffer)
              /\ outcome' \notin {"decode_error", "image_error"}
        /\ (pc = "write_text" /\ InvalidTextFrame(buffer) /\ pc' # pc) =>
              /\ current_song' =
                    [current_song EXCEPT ![FrameField(buffer)] = FrameText(buffer)]
              /\ pc' = "stamp_text"
        /\ (pc = "stamp_text" /\ InvalidTextFrame(buffer) /\ pc' # pc) =>
              /\ current_song' = [current_song EXCEPT !.last_update = now]
              /\ pc' = "unlock_text"
        /\ (pc = "unlock_text" /\ InvalidTextFrame(buffer) /\ pc' # pc) =>
              outcome' = "text_updated" /\ pc' = "reset"
      ]_vars

\* The artist has been set from a payload that was not valid text.
C16_Witness ==
    /\ pc = "reset"
    /\ outcome = "text_updated"
    /\ current_song.comment = "\\ufffd"
    /\ current_song.last_update = now

\* The code and the data the decoder takes from buf belong to one item: the
\* data comes after the code, with no other code and no closing delimiter
\* between them (in the lines of the model an item begins with its code).
SameItem(buf) ==
    \A i \in FirstWith("code", buf), j \in FirstWith("data", buf) :
        /\ i < j
        /\ \A k \in (i + 1)..(j - 1) : buf[k].tag \notin {"code", "/item"}

\* C18: every frame that goes on to a write takes its code and its payload
\* from one and the same item, an item cut short before it (with or without
\* a reconnect in between) notwithstanding.
C18_WriteFromOneItem ==
    [][ (pc = "frame" /\ pc' \in {"lock_text", "timestamp"}) => SameItem(buffer)
      ]_vars

\* C19: each complete title item the stream delivers has its own update:
\* as the work on a frame makes one update and empties the buffer, the
\* buffer of a frame never holds more than one complete item.
C19_NoItemLost ==
    pc = "frame" => Deliver(NothingDelivered, <<>>, buffer).count <= 1

\* C20: the path in picture_file, and the path in every snapshot refresh_ui
\* takes, is None or names a file that a save has written to the cover-art
\* directory.
C20_PublishedPathIsSaved ==
    /\ current_song.picture_file # NoFile => current_song.picture_file \in files
    /\ snapshot.picture_file # NoFile => snapshot.picture_file \in files

\* refresh_ui has copied a path out while the listener is at the save of
\* the next picture.
C20_Witness ==
    /\ ui_pc = "unlock"
    /\ snapshot.picture_file # NoFile
    /\ pc = "save"

\* Where refresh_ui is inside its with block.
UiCopyPositions ==
    {"read_track", "read_artist", "read_album", "read_picture",
     "read_last_update", "unlock"}

\* C17: the listener holds the lock exactly while it assigns a field and
\* last_update (never while it checks or opens the source, reads a line,
\* sleeps, decodes or saves), refresh_ui exactly while it copies the five
\* values out; and under fair scheduling the listener waiting to update and
\* refresh_ui about to take its snapshot each come to hold the lock,
\* whatever the other thread and the stream do.
C17_LockHeldOnlyToAssignOrCopy ==
    /\ [](buffer_lock = "listener" <=> pc \in CriticalPositions)
    /\ [](buffer_lock = "ui" <=> ui_pc \in UiCopyPositions)
    /\ [](pc \in {"lock_text", "lock_picture"} => <>(buffer_lock = "listener"))
    /\ [](ui_pc = "idle" => <>(buffer_lock = "ui"))

\* The listener waits for the lock with a picture while refresh_ui holds it.
C17_Witness ==
    /\ pc = "lock_picture"
    /\ buffer_lock = "ui"

\* The names with a recognized image extension, whatever its case (".png"
\* alone is a name with no extension).
HasImageExtension(name) == name \in {"a.png", "b.JPG"}
ImagesIn(dir) ==
    {i \in 1..Len(dir.entries) : HasImageExtension(dir.entries[i].name)}

\* C14: most_recent_cover returns None for a missing directory and for one
\* with no file of a recognized image extension; otherwise it returns a
\* file of the directory with a recognized extension whose modification
\* time is at least that of every other such file, whatever files of other
\* extensions are there.
C14_MostRecentCover ==
    most_recent # NotCalled =>
        IF cover_dir = Missing THEN most_recent = None
        ELSE IF ImagesIn(cover_dir) = {} THEN most_recent = None
        ELSE \E i \in ImagesIn(cover_dir) :
                /\ most_recent = cover_dir.entries[i].name
                /\ \A j \in ImagesIn(cover_dir) :
                      cover_dir.entries[i].mtime >= cover_dir.entries[j].mtime

\* The upper-case name is returned from a directory where an older image
\* comes first and a newer file of another extension is present.
C14_Witness ==
    /\ most_recent = "b.JPG"
    /\ cover_dir.exists
    /\ Len(cover_dir.entries) = 3
    /\ cover_dir.entries[1] = [name |-> "a.png", mtime |-> 1]
    /\ \E i \in 1..3 : cover_dir.entries[i] = [name |-> "b.JPG", mtime |-> 2]
    /\ \E i \in 1..3 : cover_dir.entries[i] = [name |-> "c.txt", mtime |-> 2]

====
